---- MODULE Spec2Model ----
(***************************************************************************)
(* Round-completion state machine of the interview backend: the Session -> *)
(* Round -> QuestionAnswer lifecycle (generate_questions / create_round,   *)
(* save_answer, confirm_qa_completion) and the completion webhook          *)
(* (complete_round_webhook).  Request handlers run concurrently (one       *)
(* thread per request); every ORM statement (SELECT / INSERT / UPDATE) is  *)
(* one atomic step, a database.atomic() block is one atomic step, and a    *)
(* model object held by a handler is a private copy of the row it read.    *)
(***************************************************************************)
EXTENDS Integers, Sequences, FiniteSets, TLC

\* ------------------------------------------------------------------ bounds
Procs == {"p1", "p2"}

MaxRounds == 2

MaxQuestions == 2

MaxCalls == 3

\* Python None for identifiers (row ids start at 1)
NoId == 0

Answers == {"a"}

Keys == {"k1", "k2"}

VARIABLES
    rooms,        \* table rooms: set of room ids
    sessions,     \* table sessions: rows [id, room, status]
    rounds,       \* table rounds: rows [id, session, round_index, questions_count,
                  \*                     current_question_index, status]
    qas,          \* table question_answers: rows [id, round, question_index,
                  \*                               answer_text, is_answered]
    completions,  \* table of RoundCompletion rows [id, session, round_index, idempotency_key]
    objects,      \* object store: <<session, round_index>> of the persisted QA bundles
    secret,       \* WEBHOOK_SECRET of the environment ("" when not configured)
    pc,           \* position of each request handler
    loc,          \* local variables of each request handler
    res,          \* response of the last request of each handler thread
    nextId,       \* next fresh identifier of each table (uuid4 never repeats)
    calls         \* number of requests received so far

vars == <<rooms, sessions, rounds, qas, completions, objects, secret,
          pc, loc, res, nextId, calls>>

db == <<rooms, sessions, rounds, qas, completions, objects>>

\* ------------------------------------------------------------------ rows
Room1 == 1

Session1 == 1

NewSession(id, room) == [id |-> id, room |-> room, status |-> "active"]

NewRound(id, sid, idx, n) ==
    [id |-> id, session |-> sid, round_index |-> idx, questions_count |-> n,
     current_question_index |-> 0, status |-> "active"]

\* mutant of NewQA: question_index is incremented before the row is created
NewQA_from_one(id, rid, idx) ==
    [id |-> id, round |-> rid, question_index |-> idx + 1,
     answer_text |-> "", is_answered |-> FALSE]

NewQA(id, rid, idx) ==
    [id |-> id, round |-> rid, question_index |-> idx,
     answer_text |-> "", is_answered |-> FALSE]

Idle == [op |-> "none"]

NoResponse == [code |-> 0, op |-> "none", kind |-> "none"]

\* ------------------------------------------------------------------ queries
SessionService_get_session(sid) == {s \in sessions : s.id = sid}

RoundService_get_round(rid) == {r \in rounds : r.id = rid}

session_rounds(sid) == {r \in rounds : r.session = sid}

\* Model.save(): UPDATE of every column of the row with the object's id
\* (no row with that id: nothing is written)
SaveRow(table, obj) == {IF row.id = obj.id THEN obj ELSE row : row \in table}

Done(p, response) ==
    /\ pc' = [pc EXCEPT ![p] = "idle"]
    /\ loc' = [loc EXCEPT ![p] = Idle]
    /\ res' = [res EXCEPT ![p] = response]

Goto(p, label, locals) ==
    /\ pc' = [pc EXCEPT ![p] = label]
    /\ loc' = [loc EXCEPT ![p] = locals]
    /\ UNCHANGED res

\* a handler that goes on after its first step: the thread has no response yet
Begin(p, label, locals) ==
    /\ pc' = [pc EXCEPT ![p] = label]
    /\ loc' = [loc EXCEPT ![p] = locals]
    /\ res' = [res EXCEPT ![p] = NoResponse]

Receive(p) ==
    /\ pc[p] = "idle"
    /\ calls < MaxCalls
    /\ calls' = calls + 1

\* ------------------------------------------------------------------ generate_questions
\* QuestionGenerator.generate_questions: the session check, then the questions
\* of the generator (n of them, n >= 1)
generate_questions(p, sid, n) ==
    /\ Receive(p)
    /\ Cardinality(rounds) < MaxRounds
    /\ IF SessionService_get_session(sid) = {}
       THEN Done(p, [code |-> 200, op |-> "generate_questions", success |-> FALSE,
                     error |-> "session_not_found"])
       ELSE Begin(p, "create_round", [op |-> "generate_questions", session_id |-> sid, n |-> n])
    /\ UNCHANGED <<db, secret, nextId>>

\* round_index = session.rounds.count()
create_round_index(sid) == Cardinality(session_rounds(sid))

\* mutant of create_round: the Session is not looked up
create_round_unchecked(p) ==
    /\ pc[p] = "create_round"
    /\ Goto(p, "Round_create",
            [loc[p] EXCEPT !.op = "generate_questions"] @@
            [round_index |-> create_round_index(loc[p].session_id)])
    /\ UNCHANGED <<db, secret, nextId, calls>>

\* RoundService.create_round, lines 161-166: get_session and the count; None (no
\* Session) makes generate_questions raise and answer {'success': False}
create_round(p) ==
    /\ pc[p] = "create_round"
    /\ IF SessionService_get_session(loc[p].session_id) = {}
       THEN Done(p, [code |-> 200, op |-> "generate_questions", success |-> FALSE,
                     error |-> "create_round_failed"])
       ELSE Goto(p, "Round_create",
                 [loc[p] EXCEPT !.op = "generate_questions"] @@
                 [round_index |-> create_round_index(loc[p].session_id)])
    /\ UNCHANGED <<db, secret, nextId, calls>>

\* RoundService.create_round, lines 169-177: the INSERT
Round_create(p) ==
    /\ pc[p] = "Round_create"
    /\ rounds' = rounds \cup
         {NewRound(nextId.round, loc[p].session_id, loc[p].round_index, loc[p].n)}
    /\ nextId' = [nextId EXCEPT !.round = @ + 1]
    /\ Goto(p, "create_question_answer_records", loc[p] @@ [round_id |-> nextId.round])
    /\ UNCHANGED <<rooms, sessions, qas, completions, objects, secret, calls>>

\* QuestionGenerator._create_question_answer_records
create_question_answer_records(p) ==
    /\ pc[p] = "create_question_answer_records"
    /\ qas' = qas \cup
         {NewQA(nextId.qa + i, loc[p].round_id, i) : i \in 0..(loc[p].n - 1)}
    /\ nextId' = [nextId EXCEPT !.qa = @ + loc[p].n]
    /\ Done(p, [code |-> 200, op |-> "generate_questions", success |-> TRUE,
                round_id |-> loc[p].round_id, round_index |-> loc[p].round_index])
    /\ UNCHANGED <<rooms, sessions, rounds, completions, objects, secret, calls>>

\* ------------------------------------------------------------------ save_answer
\* AnswerHandler.save_answer, lines 72-75 (the controller has checked that qa_id
\* and answer_text are not empty): get_by_id raises DoesNotExist for an unknown id,
\* which the handler turns into {'success': False}
save_answer(p, qa_id, answer_text) ==
    /\ Receive(p)
    /\ LET found == {q \in qas : q.id = qa_id} IN
       IF found = {}
       THEN /\ Done(p, [code |-> 200, op |-> "save_answer", success |-> FALSE, qa_id |-> qa_id])
            /\ UNCHANGED qas
       ELSE LET qa_record == [(CHOOSE q \in found : TRUE) EXCEPT
                                 !.answer_text = answer_text, !.is_answered = TRUE] IN
            /\ qas' = SaveRow(qas, qa_record)
            /\ Begin(p, "save_answer_round", [op |-> "save_answer", qa_record |-> qa_record])
    /\ UNCHANGED <<rooms, sessions, rounds, completions, objects, secret, nextId>>

\* line 78: round_obj = qa_record.round, the SELECT of the foreign-key row
save_answer_round(p) ==
    /\ pc[p] = "save_answer_round"
    /\ LET found == RoundService_get_round(loc[p].qa_record.round) IN
       IF found = {}
       THEN Done(p, [code |-> 200, op |-> "save_answer", success |-> FALSE,
                     qa_id |-> loc[p].qa_record.id])
       ELSE Goto(p, "save_answer_index",
                 loc[p] @@ [round_obj |-> CHOOSE r \in found : TRUE])
    /\ UNCHANGED <<db, secret, nextId, calls>>

\* line 79: the new cursor
advance_index(round_obj, qa_record) == qa_record.question_index + 1

\* lines 79-80: round_obj.current_question_index = ...; round_obj.save()
save_answer_index(p) ==
    /\ pc[p] = "save_answer_index"
    /\ LET round_obj == [loc[p].round_obj EXCEPT
               !.current_question_index = advance_index(loc[p].round_obj, loc[p].qa_record)] IN
       /\ rounds' = SaveRow(rounds, round_obj)
       /\ Goto(p, "save_answer_count", [loc[p] EXCEPT !.round_obj = round_obj])
    /\ UNCHANGED <<rooms, sessions, qas, completions, objects, secret, nextId, calls>>

\* mutant of count_remaining_questions: the remaining questions are taken from the
\* cursor of the handler's copy of the Round, not counted in the table
count_remaining_questions_by_cursor(round_obj) ==
    round_obj.questions_count - round_obj.current_question_index

\* AnswerHandler._count_remaining_questions
count_remaining_questions(round_obj) ==
    Cardinality({q \in qas : q.round = round_obj.id /\ ~q.is_answered})

\* lines 83-85 and 92-96
save_answer_count(p) ==
    /\ pc[p] = "save_answer_count"
    /\ LET remaining_questions == count_remaining_questions(loc[p].round_obj) IN
       IF remaining_questions = 0
       THEN Goto(p, "save_answer_complete", loc[p])
       ELSE Done(p, [code |-> 200, op |-> "save_answer", success |-> TRUE,
                     qa_id |-> loc[p].qa_record.id, is_round_completed |-> FALSE,
                     remaining_questions |-> remaining_questions])
    /\ UNCHANGED <<db, secret, nextId, calls>>

\* lines 86-90: round_obj.status = 'completed'; round_obj.save();
\* _save_completed_qa_json uploads the QA bundle, which may fail (it only logs)
save_answer_complete(p) ==
    /\ pc[p] = "save_answer_complete"
    /\ LET round_obj == [loc[p].round_obj EXCEPT !.status = "completed"] IN
       /\ rounds' = SaveRow(rounds, round_obj)
       /\ \E uploaded \in BOOLEAN :
            objects' = IF uploaded
                       THEN objects \cup {<<round_obj.session, round_obj.round_index>>}
                       ELSE objects
       /\ Done(p, [code |-> 200, op |-> "save_answer", success |-> TRUE,
                   qa_id |-> loc[p].qa_record.id, is_round_completed |-> TRUE,
                   remaining_questions |-> 0])
    /\ UNCHANGED <<rooms, sessions, qas, completions, secret, nextId, calls>>

\* ------------------------------------------------------------------ confirm_qa_completion
\* the digital-human orchestrator persists the QA bundle of a round in the object store
store_qa_object(sid, idx) ==
    /\ \E r \in rounds : r.session = sid /\ r.round_index = idx
    /\ <<sid, idx>> \notin objects
    /\ objects' = objects \cup {<<sid, idx>>}
    /\ UNCHANGED <<rooms, sessions, rounds, qas, completions, secret, pc, loc, res, nextId, calls>>

\* minio_client.object_exists on the path of the QA bundle of the round
object_exists(session_id, round_index) == <<session_id, round_index>> \in objects

\* mutant of confirm_qa_completion: the QA bundle is not looked up
confirm_qa_completion_unchecked(p, session_id, round_index) ==
    /\ Receive(p)
    /\ LET found == SessionService_get_session(session_id)
           matching == {r \in rounds : r.session = session_id /\ r.round_index = round_index}
       IN  IF found = {} \/ matching = {}
           THEN Done(p, [code |-> 404, op |-> "confirm_qa_completion",
                         session_id |-> session_id, round_index |-> round_index])
           ELSE \E r \in matching :
                  Begin(p, "confirm_atomic",
                       [op |-> "confirm_qa_completion", round_index |-> round_index,
                        session_obj |-> CHOOSE s \in found : TRUE, round_id |-> r.id])
    /\ UNCHANGED <<db, secret, nextId>>

\* confirm_qa_completion, lines 175-208: the session, the round, the bundle
confirm_qa_completion(p, session_id, round_index) ==
    /\ Receive(p)
    /\ LET found == SessionService_get_session(session_id)
           matching == {r \in rounds : r.session = session_id /\ r.round_index = round_index}
           response(code) == [code |-> code, op |-> "confirm_qa_completion",
                              session_id |-> session_id, round_index |-> round_index]
       IN  IF found = {} \/ matching = {}
           THEN Done(p, response(404))
           ELSE IF ~object_exists(session_id, round_index)
           THEN Done(p, response(409))
           ELSE \E r \in matching :
                  Begin(p, "confirm_atomic",
                       [op |-> "confirm_qa_completion", round_index |-> round_index,
                        session_obj |-> CHOOSE s \in found : TRUE, round_id |-> r.id])
    /\ UNCHANGED <<db, secret, nextId>>

\* mutant of has_active_rounds: the query compares with the wrong status literal
has_active_rounds_paused(table, session_obj) ==
    \E r \in table : r.session = session_obj.id /\ r.status = "paused"

\* lines 217-219: Round.select().where(session == session_obj, status != 'completed').exists()
has_active_rounds(table, session_obj) ==
    \E r \in table : r.session = session_obj.id /\ r.status # "completed"

\* lines 212-223, the body of database.atomic(): the new rounds and sessions tables
complete_round_and_session(round_id, session_obj) ==
    LET round_obj == CHOOSE r \in rounds : r.id = round_id IN
    IF round_obj.status # "completed"
    THEN LET rounds2 == SaveRow(rounds, [round_obj EXCEPT !.status = "completed"]) IN
         [rounds |-> rounds2,
          sessions |-> IF ~has_active_rounds(rounds2, session_obj)
                          /\ session_obj.status # "completed"
                       THEN SaveRow(sessions, [session_obj EXCEPT !.status = "completed"])
                       ELSE sessions]
    ELSE [rounds |-> rounds, sessions |-> sessions]

\* lines 210-246
confirm_atomic(p) ==
    /\ pc[p] = "confirm_atomic"
    /\ LET response(code) == [code |-> code, op |-> "confirm_qa_completion",
                              session_id |-> loc[p].session_obj.id,
                              round_index |-> loc[p].round_index]
       IN  IF RoundService_get_round(loc[p].round_id) = {}
           THEN /\ Done(p, response(500))
                /\ UNCHANGED <<rounds, sessions>>
           ELSE LET new == complete_round_and_session(loc[p].round_id, loc[p].session_obj) IN
                /\ rounds' = new.rounds
                /\ sessions' = new.sessions
                /\ Done(p, response(200))
    /\ UNCHANGED <<rooms, qas, completions, objects, secret, nextId, calls>>

\* ------------------------------------------------------------------ webhook requests
\* A request: method, path, JSON body and the X-DH-Signature header.  A body is
\* [shape, room_id, session_id, round_index, qa_object, occurred_at, idempotency_key];
\* a JSON null or an absent key is None: NoId for the ids, "None" for the strings,
\* [t |-> "null"] for round_index.
WebhookPath == "/api/rounds/complete"

NoSignature == <<>>

required_fields ==
    {"room_id", "session_id", "round_index", "qa_object", "occurred_at", "idempotency_key"}

IsNone(payload, field) ==
    CASE field = "room_id" -> payload.room_id = NoId
      [] field = "session_id" -> payload.session_id = NoId
      [] field = "round_index" -> payload.round_index.t = "null"
      [] field = "qa_object" -> payload.qa_object = "None"
      [] field = "occurred_at" -> payload.occurred_at = "None"
      [] field = "idempotency_key" -> payload.idempotency_key = "None"

\* line 139
missing_fields(payload) == {field \in required_fields : IsNone(payload, field)}

\* hmac.new(secret, message, sha256).hexdigest(): an ideal MAC, equal digests only
\* for equal key and message
hmac_hexdigest(key, message) == <<"hmac-sha256", key, message>>

\* line 47: METHOD + PATH + BODY
signed_message(method, path, body) == <<method, path, body>>

\* mutant of verify_signature: verification is skipped when no secret is configured
verify_signature_unconfigured(req) ==
    IF secret = "" THEN TRUE
    ELSE IF req.signature = NoSignature THEN FALSE
    ELSE hmac_hexdigest(secret, signed_message(req.method, req.path, req.body)) = req.signature

\* verify_signature, lines 29-58
verify_signature(req) ==
    IF secret = "" THEN FALSE
    ELSE IF req.signature = NoSignature THEN FALSE
    ELSE hmac_hexdigest(secret, signed_message(req.method, req.path, req.body)) = req.signature

\* int(round_index_raw), lines 153-156: an int, or a string of digits, converts
int_ok(raw) == raw.t \in {"int", "digits"}

\* isinstance(qa_object, (dict, list)), line 158
qa_object_ok(qa_object) == qa_object \in {"#dict", "#dict0"}

\* line 161
idempotency_key_ok(key) == key \notin {"#number", ""}

\* lines 164-170: a string that datetime.fromisoformat parses
occurred_at_ok(occurred_at) == occurred_at = "2025-01-01T00:00:00Z"

BadRequest(fields) == [kind |-> "bad_request", code |-> 400, fields |-> fields]

Unauthorized == [kind |-> "unauthorized", code |-> 401, fields |-> {}]

NotFound(resource) == [kind |-> "not_found", code |-> 404, fields |-> {resource}]

InternalError == [kind |-> "internal_error", code |-> 500, fields |-> {}]

Passed == [kind |-> "passed", code |-> 0, fields |-> {}]

\* mutant of request_checks: the signature is verified before the required fields
request_checks_signature_first(req) ==
    LET payload == req.body IN
    IF payload.shape # "object" THEN BadRequest({"body"})
    ELSE IF ~verify_signature(req) THEN Unauthorized
    ELSE IF missing_fields(payload) # {} THEN BadRequest(missing_fields(payload))
    ELSE IF ~int_ok(payload.round_index) THEN BadRequest({"round_index"})
    ELSE IF ~qa_object_ok(payload.qa_object) THEN BadRequest({"qa_object"})
    ELSE IF ~idempotency_key_ok(payload.idempotency_key) THEN BadRequest({"idempotency_key"})
    ELSE IF ~occurred_at_ok(payload.occurred_at) THEN BadRequest({"occurred_at"})
    ELSE Passed

\* complete_round_webhook, lines 133-170: the checks on the request alone
request_checks(req) ==
    LET payload == req.body IN
    IF payload.shape # "object" THEN BadRequest({"body"})
    ELSE IF missing_fields(payload) # {} THEN BadRequest(missing_fields(payload))
    ELSE IF ~verify_signature(req) THEN Unauthorized
    ELSE IF ~int_ok(payload.round_index) THEN BadRequest({"round_index"})
    ELSE IF ~qa_object_ok(payload.qa_object) THEN BadRequest({"qa_object"})
    ELSE IF ~idempotency_key_ok(payload.idempotency_key) THEN BadRequest({"idempotency_key"})
    ELSE IF ~occurred_at_ok(payload.occurred_at) THEN BadRequest({"occurred_at"})
    ELSE Passed

\* RoundService.get_round_by_session_and_index
get_round_by_session_and_index(session_id, round_index) ==
    {r \in rounds : r.session = session_id /\ r.round_index = round_index}

\* mutant of cross_reference_checks: the Round is looked up before the room is compared
cross_reference_checks_round_first(payload) ==
    LET found == SessionService_get_session(payload.session_id) IN
    IF found = {} THEN NotFound("session")
    ELSE IF get_round_by_session_and_index(payload.session_id, payload.round_index.v) = {}
    THEN NotFound("round")
    ELSE IF (CHOOSE s \in found : TRUE).room \notin rooms THEN InternalError
    ELSE IF (CHOOSE s \in found : TRUE).room # payload.room_id THEN BadRequest({"room_id"})
    ELSE Passed

\* lines 172-181: session, room and round of the payload
cross_reference_checks(payload) ==
    LET found == SessionService_get_session(payload.session_id) IN
    IF found = {} THEN NotFound("session")
    ELSE IF (CHOOSE s \in found : TRUE).room \notin rooms THEN InternalError
    ELSE IF (CHOOSE s \in found : TRUE).room # payload.room_id THEN BadRequest({"room_id"})
    ELSE IF get_round_by_session_and_index(payload.session_id, payload.round_index.v) = {}
    THEN NotFound("round")
    ELSE Passed

WebhookResponse(r, completion_id, req) ==
    [code |-> r.code, op |-> "webhook", kind |-> r.kind, fields |-> r.fields,
     completion_id |-> completion_id, request |-> req]

Success(completion_id) == [kind |-> "success", code |-> 200, fields |-> {}]

\* complete_round_webhook, lines 133-181
complete_round_webhook(p, req) ==
    /\ Receive(p)
    /\ LET checked == request_checks(req)
           crossed == cross_reference_checks(req.body)
       IN  IF checked # Passed THEN Done(p, WebhookResponse(checked, NoId, req))
           ELSE IF crossed # Passed THEN Done(p, WebhookResponse(crossed, NoId, req))
           ELSE \E r \in get_round_by_session_and_index(req.body.session_id,
                                                        req.body.round_index.v) :
                  Begin(p, "webhook_idempotency",
                        [op |-> "webhook", request |-> req,
                         session_id |-> req.body.session_id,
                         round_index |-> req.body.round_index.v,
                         idempotency_key |-> req.body.idempotency_key,
                         round_id |-> r.id])
    /\ UNCHANGED <<db, secret, nextId>>

\* RoundCompletionService.get_by_idempotency
get_by_idempotency(idempotency_key) ==
    {c \in completions : c.idempotency_key = idempotency_key}

\* RoundCompletionService.get_by_session_and_index
get_by_session_and_index(session_id, round_index) ==
    {c \in completions : c.session = session_id /\ c.round_index = round_index}

\* mutant of existing_completion: the lookup by (session, round_index) is left out
existing_completion_by_key_only(idempotency_key, session_id, round_index) ==
    get_by_idempotency(idempotency_key)

\* mutant of existing_completion: no lookup is made before the insert
existing_completion_none(idempotency_key, session_id, round_index) == {}

\* lines 183-195: the completion that makes the event an already processed one
existing_completion(idempotency_key, session_id, round_index) ==
    IF get_by_idempotency(idempotency_key) # {}
    THEN get_by_idempotency(idempotency_key)
    ELSE get_by_session_and_index(session_id, round_index)

\* lines 183-195
webhook_idempotency(p) ==
    /\ pc[p] = "webhook_idempotency"
    /\ LET existing == existing_completion(loc[p].idempotency_key, loc[p].session_id,
                                           loc[p].round_index)
       IN  IF existing # {}
           THEN \E c \in existing :
                  Done(p, WebhookResponse(Success(c.id), c.id, loc[p].request))
           ELSE Goto(p, "record_completion", loc[p])
    /\ UNCHANGED <<db, secret, nextId, calls>>

\* mutant of unique_violation: only idempotency_key is declared unique
unique_violation_key_only(idempotency_key, session_id, round_index) ==
    \E c \in completions : c.idempotency_key = idempotency_key

\* the uniqueness constraints of the RoundCompletion table: idempotency_key, and
\* (session, round_index)
unique_violation(idempotency_key, session_id, round_index) ==
    \E c \in completions :
        \/ c.idempotency_key = idempotency_key
        \/ c.session = session_id /\ c.round_index = round_index

\* RoundCompletionService.record_completion: one transaction that inserts the
\* RoundCompletion, marks the Round completed if it is not, and marks the Session
\* completed when none of its Rounds is left not completed
record_completion_writes(id, idempotency_key, session_id, round_index, round_id) ==
    LET rounds2 == {IF r.id = round_id THEN [r EXCEPT !.status = "completed"] ELSE r
                    : r \in rounds}
    IN  [completions |-> completions \cup
             {[id |-> id, session |-> session_id, round_index |-> round_index,
               idempotency_key |-> idempotency_key]},
         rounds |-> rounds2,
         sessions |-> IF \E r \in rounds2 : r.session = session_id /\ r.status # "completed"
                      THEN sessions
                      ELSE {IF s.id = session_id THEN [s EXCEPT !.status = "completed"] ELSE s
                            : s \in sessions}]

\* lines 197-212: record_completion, and any exception answered as an internal error
record_completion(p) ==
    /\ pc[p] = "record_completion"
    /\ IF unique_violation(loc[p].idempotency_key, loc[p].session_id, loc[p].round_index)
       THEN /\ Done(p, WebhookResponse(InternalError, NoId, loc[p].request))
            /\ UNCHANGED <<completions, rounds, sessions, nextId>>
       ELSE LET new == record_completion_writes(nextId.completion, loc[p].idempotency_key,
                          loc[p].session_id, loc[p].round_index, loc[p].round_id) IN
            /\ completions' = new.completions
            /\ rounds' = new.rounds
            /\ sessions' = new.sessions
            /\ nextId' = [nextId EXCEPT !.completion = @ + 1]
            /\ Done(p, WebhookResponse(Success(nextId.completion), nextId.completion,
                                       loc[p].request))
    /\ UNCHANGED <<rooms, qas, objects, secret, calls>>

\* ------------------------------------------------------------------ request sets
Body(room_id, session_id, round_index, qa_object, occurred_at, idempotency_key) ==
    [shape |-> "object", room_id |-> room_id, session_id |-> session_id,
     round_index |-> round_index, qa_object |-> qa_object,
     occurred_at |-> occurred_at, idempotency_key |-> idempotency_key]

IntValue(n) == [t |-> "int", v |-> n]

\* a request signed by a sender that holds the key
Signed(body, key) ==
    [method |-> "POST", path |-> WebhookPath, body |-> body,
     signature |-> hmac_hexdigest(key, signed_message("POST", WebhookPath, body))]

\* the deliveries of the orchestrator: well formed and signed with the shared secret
Deliveries ==
    {Signed(Body(Room1, Session1, IntValue(i), "#dict", "2025-01-01T00:00:00Z", k), "s1")
     : i \in 0..(MaxRounds - 1), k \in Keys}

RoundIndexValues ==
    {IntValue(0), IntValue(1), [t |-> "digits", v |-> 0], [t |-> "text", v |-> 0],
     [t |-> "null", v |-> 0]}

\* the ids of a body: right, another room, an unknown session, both, or one of
\* them absent
BodyIds ==
    {<<Room1, Session1>>, <<Room1 + 1, Session1>>, <<Room1, Session1 + 1>>,
     <<Room1 + 1, Session1 + 1>>, <<NoId, Session1>>, <<Room1, NoId>>}

Bodies ==
    {Body(ids[1], ids[2], i, q, o, k) :
        ids \in BodyIds, i \in RoundIndexValues, q \in {"#dict", "#scalar", "None"},
        o \in {"2025-01-01T00:00:00Z", "yesterday", "#number", "None"},
        k \in Keys \cup {"", "#number", "None"}}
    \cup {[Body(NoId, NoId, IntValue(0), "None", "None", "None") EXCEPT !.shape = "other"]}

\* the header of a request: absent, or the digest of the body sent under the shared
\* key or another key, or the digest of the body before its qa_object was altered
Signatures(body) ==
    {NoSignature,
     hmac_hexdigest("s1", signed_message("POST", WebhookPath, body)),
     hmac_hexdigest("s2", signed_message("POST", WebhookPath, body)),
     hmac_hexdigest("s1", signed_message("POST", WebhookPath,
                                         [body EXCEPT !.qa_object = "#dict0"]))}

Requests ==
    UNION {{[method |-> "POST", path |-> WebhookPath, body |-> b, signature |-> sig]
            : sig \in Signatures(b)} : b \in Bodies}

\* ------------------------------------------------------------------ specification
Init ==
    /\ rooms = {Room1}
    /\ sessions = {NewSession(Session1, Room1)}
    /\ rounds = {}
    /\ qas = {}
    /\ completions = {}
    /\ objects = {}
    /\ secret = "s1"
    /\ pc = [p \in Procs |-> "idle"]
    /\ loc = [p \in Procs |-> Idle]
    /\ res = [p \in Procs |-> NoResponse]
    /\ nextId = [session |-> 2, round |-> 1, qa |-> 1, completion |-> 1]
    /\ calls = 0

Next ==
    \E p \in Procs :
        \/ \E sid \in {Session1}, n \in 1..MaxQuestions : generate_questions(p, sid, n)
        \/ create_round(p)
        \/ Round_create(p)
        \/ create_question_answer_records(p)
        \/ \E qa_id \in 1..nextId.qa, text \in Answers : save_answer(p, qa_id, text)
        \/ save_answer_round(p)
        \/ save_answer_index(p)
        \/ save_answer_count(p)
        \/ save_answer_complete(p)
        \/ \E sid \in {Session1}, idx \in 0..(MaxRounds - 1) :
              \/ confirm_qa_completion(p, sid, idx)
              \/ store_qa_object(sid, idx)
        \/ confirm_atomic(p)
        \/ \E req \in Deliveries : complete_round_webhook(p, req)
        \/ webhook_idempotency(p)
        \/ record_completion(p)

Spec == Init /\ [][Next]_vars

\* the webhook alone: one request of any client, on a session with one round of one
\* question whose completion has been recorded or not; the secret is configured or not
Completion1 == [id |-> 1, session |-> Session1, round_index |-> 0, idempotency_key |-> "k1"]

InitWebhook ==
    /\ rooms = {Room1}
    /\ \E recorded \in BOOLEAN :
         LET status == IF recorded THEN "completed" ELSE "active" IN
         /\ sessions = {[NewSession(Session1, Room1) EXCEPT !.status = status]}
         /\ rounds = {[NewRound(1, Session1, 0, 1) EXCEPT !.status = status]}
         /\ completions = IF recorded THEN {Completion1} ELSE {}
         /\ nextId = [session |-> 2, round |-> 2, qa |-> 2,
                      completion |-> IF recorded THEN 2 ELSE 1]
    /\ qas = {NewQA(1, 1, 0)}
    /\ objects = {}
    /\ secret \in {"", "s1"}
    /\ pc = [p \in Procs |-> "idle"]
    /\ loc = [p \in Procs |-> Idle]
    /\ res = [p \in Procs |-> NoResponse]
    /\ calls = 0

NextWebhook ==
    \/ calls = 0 /\ \E req \in Requests : complete_round_webhook("p1", req)
    \/ webhook_idempotency("p1")
    \/ record_completion("p1")

SpecWebhook == InitWebhook /\ [][NextWebhook]_vars
\* ------------------------------------------------------------------ deletion
RoomService_get_room(room_id) == {r \in rooms : r = room_id}

Min(S) == CHOOSE x \in S : \A y \in S : x <= y

\* RoundService.delete_round: get_by_id and delete_instance (the QuestionAnswers stay)
delete_round(p, round_id) ==
    /\ Receive(p)
    /\ rounds' = {r \in rounds : r.id # round_id}
    /\ Done(p, [code |-> 200, op |-> "delete_round", round_id |-> round_id,
                success |-> RoundService_get_round(round_id) # {}])
    /\ UNCHANGED <<rooms, sessions, qas, completions, objects, secret, nextId>>

\* the locals of a deletion: the Room and the Sessions still to delete (delete_room),
\* the Session being deleted and its Rounds still to delete; owned_sessions and
\* owned_rounds are the rows the Room owned when delete_room was called
Deleting(op, room_id, todo, session_id, owned_sessions, owned_rounds) ==
    [op |-> op, room_id |-> room_id, todo |-> todo, session_id |-> session_id,
     round_ids |-> {}, owned_sessions |-> owned_sessions, owned_rounds |-> owned_rounds]

DeleteResponse(locals, code) ==
    [code |-> code, op |-> locals.op, success |-> code = 200, room_id |-> locals.room_id,
     session_id |-> locals.session_id, sessions |-> locals.owned_sessions,
     rounds |-> locals.owned_rounds]

\* DELETE /sessions/<session_id> and SessionService.delete_session, lines 113-114
delete_session(p, session_id) ==
    /\ Receive(p)
    /\ LET locals == Deleting("delete_session", NoId, {}, session_id, {}, {}) IN
       IF SessionService_get_session(session_id) = {}
       THEN Done(p, DeleteResponse(locals, 404))
       ELSE Begin(p, "select_rounds", locals)
    /\ UNCHANGED <<db, secret, nextId>>

\* line 116: for round_obj in session.rounds, the SELECT
select_rounds(p) ==
    /\ pc[p] = "select_rounds"
    /\ Goto(p, "delete_rounds",
            [loc[p] EXCEPT !.round_ids = {r.id : r \in session_rounds(loc[p].session_id)}])
    /\ UNCHANGED <<db, secret, nextId, calls>>

\* line 117: RoundService.delete_round(round_obj.id), in the order of the SELECT
delete_session_round(p) ==
    /\ pc[p] = "delete_rounds"
    /\ loc[p].round_ids # {}
    /\ LET round_id == Min(loc[p].round_ids) IN
       /\ rounds' = {r \in rounds : r.id # round_id}
       /\ Goto(p, "delete_rounds", [loc[p] EXCEPT !.round_ids = @ \ {round_id}])
    /\ UNCHANGED <<rooms, sessions, qas, completions, objects, secret, nextId, calls>>

\* lines 118-119: session.delete_instance(); return True
Session_delete_instance(p) ==
    /\ pc[p] = "delete_rounds"
    /\ loc[p].round_ids = {}
    /\ sessions' = {s \in sessions : s.id # loc[p].session_id}
    /\ IF loc[p].op = "delete_session"
       THEN Done(p, DeleteResponse(loc[p], 200))
       ELSE Goto(p, "delete_room_sessions", loc[p])
    /\ UNCHANGED <<rooms, rounds, qas, completions, objects, secret, nextId, calls>>

\* DELETE /rooms/<room_id> and RoomService.delete_room, lines 43-44
delete_room(p, room_id) ==
    /\ Receive(p)
    /\ LET owned == {s.id : s \in {s \in sessions : s.room = room_id}}
           locals == Deleting("delete_room", room_id, {}, NoId, owned,
                              {r.id : r \in {r \in rounds : r.session \in owned}})
       IN  IF RoomService_get_room(room_id) = {}
           THEN Done(p, DeleteResponse(locals, 404))
           ELSE Begin(p, "select_sessions", locals)
    /\ UNCHANGED <<db, secret, nextId>>

\* line 46: for session in room.sessions, the SELECT
select_sessions(p) ==
    /\ pc[p] = "select_sessions"
    /\ Goto(p, "delete_room_sessions",
            [loc[p] EXCEPT !.todo = {s.id : s \in {s \in sessions : s.room = loc[p].room_id}}])
    /\ UNCHANGED <<db, secret, nextId, calls>>

\* line 47: SessionService.delete_session(session.id) for the next Session, whose
\* get_by_id may find it already deleted
delete_room_session(p) ==
    /\ pc[p] = "delete_room_sessions"
    /\ loc[p].todo # {}
    /\ LET session_id == Min(loc[p].todo)
           locals == [loc[p] EXCEPT !.todo = @ \ {session_id}, !.session_id = session_id]
       IN  IF SessionService_get_session(session_id) = {}
           THEN Goto(p, "delete_room_sessions", locals)
           ELSE Goto(p, "select_rounds", locals)
    /\ UNCHANGED <<db, secret, nextId, calls>>

\* lines 48-49: room.delete_instance(); return True
Room_delete_instance(p) ==
    /\ pc[p] = "delete_room_sessions"
    /\ loc[p].todo = {}
    /\ rooms' = rooms \ {loc[p].room_id}
    /\ Done(p, DeleteResponse(loc[p], 200))
    /\ UNCHANGED <<sessions, rounds, qas, completions, objects, secret, nextId, calls>>

\* the creation and deletion of Rounds, Sessions and Rooms: a Room with two
\* Sessions, the first with the Rounds of k generate_questions calls made one
\* after the other
InitLifecycle ==
    /\ rooms = {Room1}
    /\ sessions = {NewSession(Session1, Room1), NewSession(Session1 + 1, Room1)}
    /\ \E k \in 0..MaxRounds :
         /\ rounds = {NewRound(i + 1, Session1, i, 1) : i \in 0..(k - 1)}
         /\ qas = {NewQA(i + 1, i + 1, 0) : i \in 0..(k - 1)}
         /\ nextId = [session |-> 3, round |-> k + 1, qa |-> k + 1, completion |-> 1]
    /\ completions = {}
    /\ objects = {}
    /\ secret = "s1"
    /\ pc = [p \in Procs |-> "idle"]
    /\ loc = [p \in Procs |-> Idle]
    /\ res = [p \in Procs |-> NoResponse]
    /\ calls = 0

NextLifecycle ==
    \E p \in Procs :
        \/ \E sid \in Session1..(Session1 + 2) : generate_questions(p, sid, 1)
        \/ create_round(p)
        \/ Round_create(p)
        \/ create_question_answer_records(p)
        \/ \E round_id \in 1..nextId.round : delete_round(p, round_id)
        \/ \E sid \in Session1..(Session1 + 2) : delete_session(p, sid)
        \/ select_rounds(p)
        \/ delete_session_round(p)
        \/ Session_delete_instance(p)
        \/ \E room_id \in {Room1, Room1 + 1} : delete_room(p, room_id)
        \/ select_sessions(p)
        \/ delete_room_session(p)
        \/ Room_delete_instance(p)

SpecLifecycle == InitLifecycle /\ [][NextLifecycle]_vars
\* ------------------------------------------------------------------ storage failure
\* the response of save_answer when a statement raises (lines 98-103)
SaveAnswerFailed(p) ==
    Done(p, [code |-> 200, op |-> "save_answer", success |-> FALSE,
             qa_id |-> loc[p].qa_record.id])

\* line 80: round_obj.save() raises (the data store fails); the answer stored at
\* line 75 is committed already
save_answer_index_fails(p) ==
    /\ pc[p] = "save_answer_index"
    /\ SaveAnswerFailed(p)
    /\ UNCHANGED <<db, secret, nextId, calls>>

\* line 87: round_obj.save() raises; the writes of lines 75 and 80 are committed
save_answer_complete_fails(p) ==
    /\ pc[p] = "save_answer_complete"
    /\ SaveAnswerFailed(p)
    /\ UNCHANGED <<db, secret, nextId, calls>>

\* lines 207-212: the transaction of record_completion fails and is rolled back;
\* the exception is answered as an internal error
record_completion_fails(p) ==
    /\ pc[p] = "record_completion"
    /\ Done(p, WebhookResponse(InternalError, NoId, loc[p].request))
    /\ UNCHANGED <<db, secret, nextId, calls>>

\* the handlers that write, on a data store that may fail: a Session with one
\* Round whose questions are not answered yet
InitStorage ==
    /\ rooms = {Room1}
    /\ sessions = {NewSession(Session1, Room1)}
    /\ \E n \in 1..MaxQuestions :
         /\ rounds = {NewRound(1, Session1, 0, n)}
         /\ qas = {NewQA(i + 1, 1, i) : i \in 0..(n - 1)}
         /\ nextId = [session |-> 2, round |-> 2, qa |-> n + 1, completion |-> 1]
    /\ completions = {}
    /\ objects = {}
    /\ secret = "s1"
    /\ pc = [p \in Procs |-> "idle"]
    /\ loc = [p \in Procs |-> Idle]
    /\ res = [p \in Procs |-> NoResponse]
    /\ calls = 0

NextStorage ==
    \E p \in Procs :
        \/ \E qa_id \in 1..nextId.qa, text \in Answers : save_answer(p, qa_id, text)
        \/ save_answer_round(p)
        \/ save_answer_index(p)
        \/ save_answer_index_fails(p)
        \/ save_answer_count(p)
        \/ save_answer_complete(p)
        \/ save_answer_complete_fails(p)
        \/ \E req \in Deliveries : complete_round_webhook(p, req)
        \/ webhook_idempotency(p)
        \/ record_completion(p)
        \/ record_completion_fails(p)

SpecStorage == InitStorage /\ [][NextStorage]_vars
\* ------------------------------------------------------------------ get_current_question
\* mutant of find_unanswered_question: the fallback looks only at the questions
\* after the current index
find_unanswered_question_forward(round_obj, current_index) ==
    LET unanswered == {q \in qas : q.round = round_obj.id /\ ~q.is_answered}
        current == {q \in unanswered : q.question_index = current_index}
        later == {q \in unanswered : q.question_index > current_index}
    IN  IF current # {} THEN current
        ELSE {q \in later : \A o \in later : q.question_index <= o.question_index}

\* AnswerHandler._find_unanswered_question: the unanswered question at the current
\* index, else the first unanswered one in the order of question_index (no row:
\* the empty set)
find_unanswered_question(round_obj, current_index) ==
    LET unanswered == {q \in qas : q.round = round_obj.id /\ ~q.is_answered}
        current == {q \in unanswered : q.question_index = current_index}
    IN  IF current # {} THEN current
        ELSE {q \in unanswered : \A o \in unanswered : q.question_index <= o.question_index}

\* the question data of get_current_question, None when qa_id is NoId
QuestionData(round_id, qa_id, question_number, total_questions) ==
    [code |-> 200, op |-> "get_current_question", round_id |-> round_id, qa_id |-> qa_id,
     question_number |-> question_number, total_questions |-> total_questions]

\* AnswerHandler.get_current_question
get_current_question(p, round_id) ==
    /\ Receive(p)
    /\ LET found == RoundService_get_round(round_id) IN
       IF found = {}
       THEN Done(p, QuestionData(round_id, NoId, 0, 0))
       ELSE LET round_obj == CHOOSE r \in found : TRUE
                qa_records == find_unanswered_question(round_obj,
                                                       round_obj.current_question_index)
            IN  IF qa_records = {}
                THEN Done(p, QuestionData(round_id, NoId, 0, 0))
                ELSE \E qa_record \in qa_records :
                       Done(p, QuestionData(round_id, qa_record.id,
                                            qa_record.question_index + 1,
                                            Cardinality({q \in qas : q.round = round_id})))
    /\ UNCHANGED <<db, secret, nextId>>

\* a Round of n questions of which any may be answered; the cursor is 0 or follows
\* an answered question (save_answer sets it to question_index + 1 after it has
\* stored the answer)
InitQuestion ==
    /\ rooms = {Room1}
    /\ sessions = {NewSession(Session1, Room1)}
    /\ \E n \in 1..MaxQuestions : \E answered \in SUBSET (0..(n - 1)) :
         \E cursor \in {0} \cup {i + 1 : i \in answered} :
           /\ rounds = {[NewRound(1, Session1, 0, n) EXCEPT
                            !.current_question_index = cursor]}
           /\ qas = {[NewQA(i + 1, 1, i) EXCEPT
                         !.is_answered = i \in answered,
                         !.answer_text = IF i \in answered THEN "a" ELSE ""]
                     : i \in 0..(n - 1)}
           /\ nextId = [session |-> 2, round |-> 2, qa |-> n + 1, completion |-> 1]
    /\ completions = {}
    /\ objects = {}
    /\ secret = "s1"
    /\ pc = [p \in Procs |-> "idle"]
    /\ loc = [p \in Procs |-> Idle]
    /\ res = [p \in Procs |-> NoResponse]
    /\ calls = 0

NextQuestion ==
    \E p \in Procs : \E round_id \in 1..2 : get_current_question(p, round_id)

SpecQuestion == InitQuestion /\ [][NextQuestion]_vars

\* ------------------------------------------------------------------ session status
AnswerTexts == {"a", "b"}

SessionStatuses == {"active", "completed", "paused"}

\* SessionService.update_session_status
update_session_status(p, session_id, status) ==
    /\ Receive(p)
    /\ LET found == SessionService_get_session(session_id) IN
       IF found = {}
       THEN /\ Done(p, [code |-> 200, op |-> "update_session_status", success |-> FALSE,
                        session_id |-> session_id])
            /\ UNCHANGED sessions
       ELSE /\ sessions' = SaveRow(sessions, [(CHOOSE x \in found : TRUE) EXCEPT
                                                 !.status = status])
            /\ Done(p, [code |-> 200, op |-> "update_session_status", success |-> TRUE,
                        session_id |-> session_id])
    /\ UNCHANGED <<rooms, rounds, qas, completions, objects, secret, nextId>>

\* the operations on a Session with one Round that answer questions and set
\* statuses
NextSession ==
    \E p \in Procs :
        \/ \E qa_id \in 1..nextId.qa, text \in AnswerTexts : save_answer(p, qa_id, text)
        \/ save_answer_round(p)
        \/ save_answer_index(p)
        \/ save_answer_count(p)
        \/ save_answer_complete(p)
        \/ \E sid \in {Session1, Session1 + 1}, status \in SessionStatuses :
              update_session_status(p, sid, status)
        \/ store_qa_object(Session1, 0)
        \/ confirm_qa_completion(p, Session1, 0)
        \/ confirm_atomic(p)

SpecSession == InitStorage /\ [][NextSession]_vars
\* ------------------------------------------------------------------ properties
RoundBecomesCompleted(r) ==
    /\ r.status # "completed"
    /\ \E r2 \in rounds' : r2.id = r.id /\ r2.status = "completed"

\* C1: two deliveries of the same event (same idempotency_key, valid, session and
\* round exist) both end in success with the same completion id, and exactly one
\* RoundCompletion with that key exists; no conflict is answered as an error
C1_ExactlyOnceCompletion ==
    \A p, q \in Procs :
        (/\ p # q
         /\ res[p].op = "webhook" /\ res[q].op = "webhook"
         /\ res[p].request = res[q].request
         /\ res[p].kind # "not_found" /\ res[q].kind # "not_found")
        => /\ res[p].kind = "success" /\ res[q].kind = "success"
           /\ res[p].completion_id = res[q].completion_id
           /\ Cardinality(get_by_idempotency(res[p].request.body.idempotency_key)) = 1

\* C2: the round_index values of the Rounds of a Session are exactly 0..N-1 for its
\* N Rounds: no gap, and no index shared by two Rounds
C2_RoundIndexDensity ==
    \A s \in sessions :
        /\ {r.round_index : r \in session_rounds(s.id)}
             = 0..(Cardinality(session_rounds(s.id)) - 1)
        /\ \A r1, r2 \in session_rounds(s.id) :
             r1.round_index = r2.round_index => r1 = r2

\* C3: when the last not completed Round of a Session becomes completed (by
\* save_answer or by a completion event), the Session is completed
C3_LastRoundCompletesSession ==
    [][\A r \in rounds :
         (/\ RoundBecomesCompleted(r)
          /\ \A o \in rounds' : o.session = r.session => o.status = "completed")
         => \A s \in sessions' : s.id = r.session => s.status = "completed"]_vars

\* C4: a step that completes one Round of a Session while another Round of that
\* Session is still not completed leaves the status of the Session as it was
C4_OtherRoundOpenKeepsSession ==
    [][\A r \in rounds :
         (/\ RoundBecomesCompleted(r)
          /\ \E o \in rounds' : o.session = r.session /\ o.status # "completed")
         => \A s \in sessions : \A s2 \in sessions' :
              (s.id = r.session /\ s2.id = s.id) => s2.status = s.status]_vars

\* C4 witness: a confirmed completion of one Round, another Round of the Session not
\* completed, the Session still active
C4_Witness ==
    \E p \in Procs :
        /\ res[p].op = "confirm_qa_completion" /\ res[p].code = 200
        /\ \E r \in rounds, o \in rounds, s \in sessions :
             /\ r.session = res[p].session_id /\ r.round_index = res[p].round_index
             /\ r.status = "completed"
             /\ o.session = r.session /\ o.status # "completed"
             /\ s.id = r.session /\ s.status = "active"

\* C5: current_question_index of a Round never decreases
C5_CursorNeverDecreases ==
    [][\A r \in rounds : \A r2 \in rounds' :
         r2.id = r.id => r2.current_question_index >= r.current_question_index]_vars

\* the request of the webhook call that thread p received in this step
ReceivedWebhook(p) ==
    /\ pc[p] = "idle"
    /\ calls' = calls + 1
    /\ \/ pc'[p] = "webhook_idempotency"
       \/ pc'[p] = "idle" /\ res'[p].op = "webhook"

\* the signature header is the hex HMAC-SHA256 of METHOD + PATH + BODY under the
\* configured secret
Authentic(req) ==
    /\ secret # ""
    /\ req.signature = <<"hmac-sha256", secret, <<req.method, req.path, req.body>>>>

AllFieldsPresent(body) ==
    /\ body.shape = "object"
    /\ body.room_id # NoId /\ body.session_id # NoId /\ body.round_index.t # "null"
    /\ body.qa_object # "None" /\ body.occurred_at # "None" /\ body.idempotency_key # "None"

\* a body the contract calls structurally valid: every field present, round_index an
\* integer, qa_object not a scalar, idempotency_key a non-empty string, occurred_at an
\* ISO-8601 string
StructurallyValid(body) ==
    /\ AllFieldsPresent(body)
    /\ body.round_index.t = "int"
    /\ body.qa_object \in {"#dict", "#dict0"}
    /\ body.idempotency_key \in Keys
    /\ body.occurred_at = "2025-01-01T00:00:00Z"

\* C6: a webhook call whose idempotency_key is not stored, for a (session,
\* round_index) that has a RoundCompletion, is answered with success and the id of
\* that RoundCompletion, and no row is added
C6_SameRoundOtherKeyShortCircuits ==
    [][\A p \in Procs :
         (/\ pc[p] = "webhook_idempotency" /\ pc'[p] # pc[p]
          /\ \A c \in completions : c.idempotency_key # loc[p].idempotency_key
          /\ \E c \in completions :
               c.session = loc[p].session_id /\ c.round_index = loc[p].round_index)
         => /\ pc'[p] = "idle"
            /\ res'[p].kind = "success"
            /\ \E c \in completions :
                 /\ c.session = loc[p].session_id /\ c.round_index = loc[p].round_index
                 /\ res'[p].completion_id = c.id
            /\ completions' = completions]_vars

\* C6 witness: a success that carries the id of a RoundCompletion stored under
\* another key than the one of the request
C6_Witness ==
    \E p \in Procs :
        /\ res[p].op = "webhook" /\ res[p].kind = "success"
        /\ \E c \in completions :
             /\ c.id = res[p].completion_id
             /\ c.idempotency_key # res[p].request.body.idempotency_key
             /\ c.session = res[p].request.body.session_id
             /\ c.round_index = res[p].request.body.round_index.v
        /\ Cardinality(completions) = 1

\* C7: a webhook call without qa_object and with an invalid signature is answered
\* with a validation error that names qa_object, not with an authentication error
C7_MissingFieldBeforeSignature ==
    \A p \in Procs :
        (/\ res[p].op = "webhook"
         /\ res[p].request.body.shape = "object"
         /\ res[p].request.body.qa_object = "None"
         /\ ~Authentic(res[p].request))
        => /\ res[p].kind = "bad_request"
           /\ "qa_object" \in res[p].fields

\* C7 witness: such a call, every other field valid, answered 400
C7_Witness ==
    \E p \in Procs :
        /\ res[p].op = "webhook"
        /\ StructurallyValid([res[p].request.body EXCEPT !.qa_object = "#dict"])
        /\ res[p].request.body.qa_object = "None"
        /\ res[p].request.signature # NoSignature
        /\ ~Authentic(res[p].request)
        /\ secret # ""
        /\ res[p].code = 400

\* C8: the signature is checked only after the whole structural validation: a body
\* with a missing or malformed field is answered with a validation error whatever
\* the signature, and Unauthorized is answered only for structurally valid bodies
C8_ValidationBeforeSignature ==
    \A p \in Procs :
        res[p].op = "webhook"
        => /\ ~StructurallyValid(res[p].request.body) => res[p].kind = "bad_request"
           /\ res[p].kind = "unauthorized" => StructurallyValid(res[p].request.body)

C10_CompletionAtomic ==
    /\ [][\A p \in Procs : \A r \in rounds :
            (pc[p] \in {"record_completion", "confirm_atomic"} /\ pc'[p] # pc[p]
             /\ RoundBecomesCompleted(r))
            => \E c \in completions' :
                 c.session = r.session /\ c.round_index = r.round_index]_vars
    /\ [](\A c \in completions : \A r \in rounds :
            (r.session = c.session /\ r.round_index = c.round_index)
            => r.status = "completed")

C12_StatusNeverReverts ==
    [][\A r \in rounds : \A r2 \in rounds' :
         (r2.id = r.id /\ r.status = "completed") => r2.status = "completed"]_vars

\* the save_answer calls of threads p and q have returned, for two different
\* questions of the same Round, and every question of that Round is answered
LastTwoAnswered(p, q) ==
    /\ p # q
    /\ res[p].op = "save_answer" /\ res[q].op = "save_answer"
    /\ res[p].success /\ res[q].success
    /\ res[p].qa_id # res[q].qa_id
    /\ \E a \in qas, b \in qas :
         /\ a.id = res[p].qa_id /\ b.id = res[q].qa_id /\ a.round = b.round
         /\ \A c \in qas : c.round = a.round => c.is_answered

\* C14: two save_answer calls for the last two unanswered questions of a Round do
\* not both return remaining_questions > 0: at least one reports
\* is_round_completed, and the Round ends with status completed
C14_LastTwoAnswersComplete ==
    \A p, q \in Procs :
        LastTwoAnswered(p, q)
        => /\ res[p].is_round_completed \/ res[q].is_round_completed
           /\ ~(res[p].remaining_questions > 0 /\ res[q].remaining_questions > 0)
           /\ \A a \in qas : \A r \in rounds :
                (a.id = res[p].qa_id /\ r.id = a.round) => r.status = "completed"

\* C14 witness: the two calls ran one after the other's answer was stored: one
\* still saw a question left, the other saw none, and the Round is completed
C14_Witness ==
    \E p, q \in Procs :
        /\ LastTwoAnswered(p, q)
        /\ res[p].remaining_questions = 1 /\ res[q].is_round_completed
        /\ \E r \in rounds : r.questions_count = 2 /\ r.status = "completed"

\* C15: of two concurrent save_answer calls for the last two unanswered questions
\* of a Round only one performs the transition to completed and the persisting of
\* the QA bundle: the two handlers are never both about to perform it
C15_SingleCompletionTransition ==
    \A p, q \in Procs :
        (p # q /\ pc[p] = "save_answer_complete" /\ pc[q] = "save_answer_complete")
        => ~(/\ loc[p].round_obj.id = loc[q].round_obj.id
             /\ loc[p].qa_record.id # loc[q].qa_record.id)

\* the fields of a body that are missing or malformed
OffendingFields(body) ==
    {field \in required_fields :
        \/ IsNone(body, field)
        \/ field = "round_index" /\ ~int_ok(body.round_index)
        \/ field = "qa_object" /\ ~qa_object_ok(body.qa_object)
        \/ field = "idempotency_key" /\ ~idempotency_key_ok(body.idempotency_key)
        \/ field = "occurred_at" /\ ~occurred_at_ok(body.occurred_at)}

\* C17: a webhook call with missing or malformed fields is answered with one
\* validation error that names every offending field, not only the first one
C17_AllOffendingFieldsNamed ==
    \A p \in Procs :
        (/\ res[p].op = "webhook"
         /\ res[p].request.body.shape = "object"
         /\ Authentic(res[p].request)
         /\ OffendingFields(res[p].request.body) # {})
        => /\ res[p].kind = "bad_request"
           /\ res[p].fields = OffendingFields(res[p].request.body)

\* C18: for a structurally valid, correctly signed webhook call the cross-reference
\* checks run in the order Session, room, Round, and the first that fails decides
\* the response: NotFound(Session), else the room mismatch error, else
\* NotFound(Round); the failing call ends there, before any idempotency lookup
\* or write
C18_CrossReferenceOrder ==
    [][\A p \in Procs :
         ReceivedWebhook(p) =>
            LET req == IF pc'[p] = "idle" THEN res'[p].request ELSE loc'[p].request
                owner == {s \in sessions : s.id = req.body.session_id}
                failed(kind, field) ==
                    /\ pc'[p] = "idle"
                    /\ res'[p].kind = kind /\ res'[p].fields = {field}
                    /\ UNCHANGED db
            IN  (Authentic(req) /\ StructurallyValid(req.body)) =>
                   IF owner = {} THEN failed("not_found", "session")
                   ELSE IF \E s \in owner : s.room # req.body.room_id
                   THEN failed("bad_request", "room_id")
                   ELSE IF ~\E r \in rounds : /\ r.session = req.body.session_id
                                               /\ r.round_index = req.body.round_index.v
                   THEN failed("not_found", "round")
                   ELSE pc'[p] = "webhook_idempotency"]_vars

\* C18 witness: a valid, signed call that names another room and a round_index
\* the Session does not have is answered with the room mismatch
C18_Witness ==
    \E p \in Procs :
        /\ res[p].op = "webhook"
        /\ Authentic(res[p].request) /\ StructurallyValid(res[p].request.body)
        /\ res[p].request.body.session_id = Session1
        /\ res[p].request.body.room_id # Room1
        /\ ~\E r \in rounds : r.round_index = res[p].request.body.round_index.v
        /\ res[p].kind = "bad_request" /\ res[p].fields = {"room_id"}
        /\ completions \in {{}, {Completion1}}

\* C13: the round_index that create_round assigns is never an index the Session
\* has used before, also after Rounds of the Session were deleted: a create_round
\* whose count is still the one it read does not insert a Round with the
\* round_index of a Round the Session already has
C13_RoundIndexNeverReused ==
    [][\A p \in Procs :
         (/\ pc[p] = "Round_create" /\ pc'[p] # pc[p]
          /\ loc[p].round_index = create_round_index(loc[p].session_id))
         => \A r \in session_rounds(loc[p].session_id) :
              r.round_index # loc[p].round_index]_vars

\* C19: delete_room on an existing Room returns true, and afterwards the Room,
\* every Session it owned and every Round of those Sessions cannot be retrieved:
\* get_room, get_session and get_round return None
C19_DeleteRoomCascades ==
    /\ [][\A p \in Procs :
            (pc[p] = "idle" /\ res'[p] # res[p] /\ res'[p].op = "delete_room"
             /\ ~res'[p].success)
            => RoomService_get_room(res'[p].room_id) = {}]_vars
    /\ [](\A p \in Procs :
            (res[p].op = "delete_room" /\ res[p].success)
            => /\ RoomService_get_room(res[p].room_id) = {}
               /\ \A sid \in res[p].sessions : SessionService_get_session(sid) = {}
               /\ \A rid \in res[p].rounds : RoundService_get_round(rid) = {})

\* C20: create_round for a session id that does not exist fails with the
\* not-found outcome (None, so that generate_questions answers a failure) and
\* creates no Round and no QuestionAnswer
C20_CreateRoundUnknownSession ==
    [][\A p \in Procs :
         (/\ pc[p] = "create_round" /\ pc'[p] # pc[p]
          /\ SessionService_get_session(loc[p].session_id) = {})
         => /\ pc'[p] = "idle"
            /\ ~res'[p].success /\ res'[p].error = "create_round_failed"
            /\ rounds' = rounds /\ qas' = qas]_vars

\* C20 witness: create_round was called for a Session deleted in the meantime,
\* and failed
C20_Witness ==
    \E p \in Procs :
        /\ res[p].op = "generate_questions" /\ ~res[p].success
        /\ res[p].error = "create_round_failed"
        /\ rounds = {} /\ qas = {}

\* no record has been written: every QuestionAnswer, Round, Session and
\* RoundCompletion is as the data store held it before the first call
NothingWritten ==
    /\ \A q \in qas : ~q.is_answered /\ q.answer_text = ""
    /\ \A r \in rounds : r.status = "active" /\ r.current_question_index = 0
    /\ \A s \in sessions : s.status = "active"
    /\ completions = {}

\* C16: a save_answer or a completion webhook that fails because a data-store
\* write failed is rolled back as a whole: the QuestionAnswer, Round, Session and
\* RoundCompletion records are as before the call (stated for the first call made)
C16_FailureRollsBack ==
    \A p \in Procs :
        (/\ calls = 1 /\ pc[p] = "idle"
         /\ \/ res[p].op = "save_answer" /\ ~res[p].success
            \/ res[p].op = "webhook" /\ res[p].kind = "internal_error")
        => NothingWritten

\* C21: save_answer with a qa_id that matches no QuestionAnswer is reported as
\* not found (a 404), not as a success or a generic result
C21_UnknownQaNotFound ==
    \A p \in Procs :
        (res[p].op = "save_answer" /\ \A q \in qas : q.id # res[p].qa_id)
        => res[p].code = 404

\* the step is one of thread p: no other thread moves in it
StepOf(p) ==
    \A q \in Procs \ {p} : pc'[q] = pc[q] /\ loc'[q] = loc[q] /\ res'[q] = res[q]

\* C23: a webhook call whose idempotency_key is already recorded is answered with
\* success and the id of the recorded RoundCompletion, and the call changes no
\* RoundCompletion, Round or Session
C23_ReplayChangesNothing ==
    [][\A p \in Procs :
         /\ (ReceivedWebhook(p) /\ StepOf(p)) => UNCHANGED db
         /\ (/\ pc[p] = "webhook_idempotency" /\ pc'[p] # pc[p]
             /\ \E c \in completions : c.idempotency_key = loc[p].idempotency_key)
            => /\ pc'[p] = "idle"
               /\ res'[p].kind = "success"
               /\ \E c \in completions :
                    /\ c.idempotency_key = loc[p].idempotency_key
                    /\ res'[p].completion_id = c.id
               /\ completions' = completions /\ rounds' = rounds
               /\ sessions' = sessions]_vars

\* C23 witness: the same event was delivered twice, and both deliveries were
\* answered with the id of the one RoundCompletion recorded under its key
C23_Witness ==
    \E p, q \in Procs :
        /\ p # q
        /\ res[p].op = "webhook" /\ res[q].op = "webhook"
        /\ res[p].request = res[q].request
        /\ res[p].kind = "success" /\ res[q].kind = "success"
        /\ res[p].completion_id = res[q].completion_id
        /\ \E c \in completions :
             /\ c.id = res[p].completion_id
             /\ c.idempotency_key = res[p].request.body.idempotency_key
        /\ Cardinality(completions) = 1

\* C24: the generation of a Round from N questions creates exactly N
\* QuestionAnswers for it, with question_index 0..N-1, none answered, and N
\* is the questions_count of the Round
C24_QuestionAnswersOfRound ==
    [][\A p \in Procs :
         (pc[p] = "create_question_answer_records" /\ pc'[p] # pc[p])
         => LET created == qas' \ qas
                N == loc[p].n
            IN  /\ Cardinality(created) = N
                /\ {q.question_index : q \in created} = 0..(N - 1)
                /\ \A q \in created : q.round = loc[p].round_id /\ ~q.is_answered
                /\ {q \in qas' : q.round = loc[p].round_id} = created
                /\ \A r \in rounds : r.id = loc[p].round_id => r.questions_count = N]_vars

\* C24 witness: a Round generated from two questions, with its two QuestionAnswers
C24_Witness ==
    \E p \in Procs : \E r \in rounds :
        /\ res[p].op = "generate_questions" /\ res[p].success
        /\ r.id = res[p].round_id /\ r.questions_count = 2
        /\ {q.question_index : q \in {q \in qas : q.round = r.id}} = {0, 1}

\* C28: the qa_completion confirmation marks a Round (and a Session) completed
\* only if the persisted QA bundle of the Round exists; when the bundle is missing
\* the call is answered 409 and changes no Round or Session
C28_ConfirmRequiresBundle ==
    [][\A p \in Procs :
         /\ (pc[p] = "idle" /\ calls' # calls)
            => \A r \in rounds :
                 (/\ <<r.session, r.round_index>> \notin objects
                  /\ SessionService_get_session(r.session) # {}
                  /\ confirm_qa_completion(p, r.session, r.round_index))
                 => /\ pc'[p] = "idle" /\ res'[p].op = "confirm_qa_completion"
                    /\ res'[p].code = 409 /\ rounds' = rounds /\ sessions' = sessions
         /\ (/\ pc[p] = "idle" /\ pc'[p] = "confirm_atomic")
            => /\ <<loc'[p].session_obj.id, loc'[p].round_index>> \in objects
               /\ rounds' = rounds /\ sessions' = sessions
         /\ (/\ pc[p] = "confirm_atomic" /\ pc'[p] # pc[p]
             /\ (rounds' # rounds \/ sessions' # sessions))
            => <<loc[p].session_obj.id, loc[p].round_index>> \in objects]_vars

\* C28 witness: a confirmation for a Round without a persisted bundle, answered
\* 409, the Round and the Session still active
C28_Witness ==
    \E p \in Procs :
        /\ res[p].op = "confirm_qa_completion" /\ res[p].code = 409
        /\ <<res[p].session_id, res[p].round_index>> \notin objects
        /\ \E r \in rounds : /\ r.session = res[p].session_id
                              /\ r.round_index = res[p].round_index
                              /\ r.status = "active"
        /\ \A s \in sessions : s.status = "active"

\* C29: a Session whose status is completed has no Round whose status is not
\* completed, also after create_round adds a Round to a completed Session
C29_CompletedSessionHasNoOpenRound ==
    \A s \in sessions :
        s.status = "completed"
        => \A r \in session_rounds(s.id) : r.status = "completed"

\* C30: a Round whose status is completed has no unanswered QuestionAnswer,
\* whichever path completed it
C30_CompletedRoundFullyAnswered ==
    \A r \in rounds :
        r.status = "completed"
        => \A q \in qas : q.round = r.id => q.is_answered

\* C22: get_current_question returns the QuestionAnswer at the Round's
\* current_question_index when that one is unanswered, otherwise the unanswered
\* QuestionAnswer with the lowest question_index, and None exactly when the Round
\* has no unanswered QuestionAnswer
C22_CurrentQuestion ==
    \A p \in Procs : \A r \in rounds :
        (res[p].op = "get_current_question" /\ res[p].round_id = r.id)
        => LET unanswered == {q \in qas : q.round = r.id /\ ~q.is_answered}
               current == {q \in unanswered :
                              q.question_index = r.current_question_index}
           IN  /\ current # {} => \E q \in current : res[p].qa_id = q.id
               /\ (current = {} /\ unanswered # {})
                  => \E q \in unanswered :
                       /\ res[p].qa_id = q.id
                       /\ \A o \in unanswered : q.question_index <= o.question_index
               /\ res[p].qa_id = NoId <=> unanswered = {}

\* C22 witness: the cursor is past the last question, whose answer is stored, and
\* the call returned the unanswered first question
C22_Witness ==
    \E p \in Procs : \E r \in rounds : \E q \in qas :
        /\ res[p].op = "get_current_question" /\ res[p].round_id = r.id
        /\ r.current_question_index = 2
        /\ q.round = r.id /\ q.question_index = 0 /\ ~q.is_answered
        /\ res[p].qa_id = q.id /\ res[p].question_number = 1

\* C25: a QuestionAnswer is mutated once: once is_answered is true it stays true
\* and no later save_answer changes answer_text
C25_AnswerWrittenOnce ==
    [][\A q \in qas : \A q2 \in qas' :
         (q2.id = q.id /\ q.is_answered)
         => q2.is_answered /\ q2.answer_text = q.answer_text]_vars

\* C26: the status of a Session changes only in a step that completes one of its
\* Rounds, and never to paused
C26_SessionStatusOnlyByCompletion ==
    [][\A s \in sessions : \A s2 \in sessions' :
         (s2.id = s.id /\ s2.status # s.status)
         => /\ \E r \in rounds : r.session = s.id /\ RoundBecomesCompleted(r)
            /\ s2.status # "paused"]_vars

\* C27: referential integrity: the Room of every Session, the Session of every
\* Round and the Round of every QuestionAnswer exist
C27_ReferentialIntegrity ==
    /\ \A s \in sessions : RoomService_get_room(s.room) # {}
    /\ \A r \in rounds : SessionService_get_session(r.session) # {}
    /\ \A q \in qas : RoundService_get_round(q.round) # {}

====
